---- MODULE Spec2Model ----
(***************************************************************************)
(* MagnusDownloader (src/main.cpp): fetch an RSS feed, parse it twice      *)
(* (once per series title pattern), sort each list by episode number and   *)
(* download + tag every episode sequentially.                              *)
(*                                                                         *)
(* Strings are sequences of one-character strings, so that the regular     *)
(* expression search and std::stoi are computed character by character.    *)
(***************************************************************************)
EXTENDS Integers, Sequences, FiniteSets

\* ------------------------------------------------------------------ bounds
\* Largest number of <item> elements in the feed document.
MaxItems == 2

\* std::stoi returns int: the largest value it can return (src/main.cpp:41).
INT_MAX == 2147483647

\* ---------------------------------------------------------------- characters
Digits == <<"0", "1", "2", "3", "4", "5", "6", "7", "8", "9">>

UpperCase == <<"A", "B", "C", "D", "E", "F", "G", "H", "I", "J", "K", "L", "M",
               "N", "O", "P", "Q", "R", "S", "T", "U", "V", "W", "X", "Y", "Z">>

LowerCase == <<"a", "b", "c", "d", "e", "f", "g", "h", "i", "j", "k", "l", "m",
               "n", "o", "p", "q", "r", "s", "t", "u", "v", "w", "x", "y", "z">>

\* \d of the ECMAScript grammar.
IsDigit(c) == \E k \in 1..Len(Digits) : Digits[k] = c

DigitValue(c) == (CHOOSE k \in 1..Len(Digits) : Digits[k] = c) - 1

\* Case folding used by std::regex::icase.
ToLower(c) ==
    IF \E k \in 1..Len(UpperCase) : UpperCase[k] = c
    THEN LowerCase[CHOOSE k \in 1..Len(UpperCase) : UpperCase[k] = c]
    ELSE c

\* ------------------------------------------------------------ title patterns
\* std::regex pattern("MAG (\\d+)", icase): the literal part before (\d+).
pattern == <<"M", "A", "G", " ">>

\* std::regex pattern2("The Magnus Protocol (\\d+)", icase): the literal part.
pattern2 == <<"T", "h", "e", " ", "M", "a", "g", "n", "u", "s", " ",
              "P", "r", "o", "t", "o", "c", "o", "l", " ">>

\* The pattern <literal>(\d+) matches at position i of name.
MatchAt(name, lit, i) ==
    /\ i + Len(lit) <= Len(name)
    /\ \A k \in 1..Len(lit) : ToLower(name[i + k - 1]) = ToLower(lit[k])
    /\ IsDigit(name[i + Len(lit)])

\* Last index of the greedy digit run that starts at index j.
DigitRunEnd(name, j) ==
    CHOOSE e \in j..Len(name) :
        /\ \A k \in j..e : IsDigit(name[k])
        /\ (e = Len(name) \/ ~IsDigit(name[e + 1]))

\* std::regex_search(name, match, pattern): leftmost match, greedy group 1.
regex_search(name, lit) ==
    LET starts == {i \in 1..Len(name) : MatchAt(name, lit, i)}
    IN  IF starts = {}
        THEN [matched |-> FALSE, group1 |-> <<>>]
        ELSE LET i == CHOOSE s \in starts : \A t \in starts : s <= t
                 j == i + Len(lit)
             IN  [matched |-> TRUE, group1 |-> SubSeq(name, j, DigitRunEnd(name, j))]

\* Value of the decimal numeral digits[1..k] (used for numerals below 10^9).
RECURSIVE Value(_, _)
Value(digits, k) ==
    IF k = 0 THEN 0 ELSE Value(digits, k - 1) * 10 + DigitValue(digits[k])

\* The numeral without its leading zeros (a numeral of zeros keeps one).
Significant(digits) ==
    LET first == CHOOSE k \in 1..Len(digits) :
                     /\ (digits[k] # "0" \/ k = Len(digits))
                     /\ \A j \in 1..(k - 1) : digits[j] = "0"
    IN  SubSeq(digits, first, Len(digits))

\* std::stoi throws std::out_of_range when the value does not fit an int:
\* more than ten significant digits, or ten of them above INT_MAX.
StoiThrows(digits) ==
    LET sig == Significant(digits)
        n == Len(sig)
    IN  \/ n > 10
        \/ /\ n = 10
           /\ Value(sig, n - 1) > (INT_MAX - DigitValue(sig[n])) \div 10

\* std::stoi on a run of decimal digits whose value fits an int.
stoi(digits) ==
    LET sig == Significant(digits)
    IN  Value(sig, Len(sig))

\* ------------------------------------------------------------------ inputs
\* Item titles the feed is built from (each a sequence of characters).
\* "MAG 7"
TitleMag7 ==
    <<"M", "A", "G", " ", "7">>

\* "MAG 12"
TitleMag12 ==
    <<"M", "A", "G", " ", "1", "2">>

\* "mag 7 bonus"
TitleMagBonus ==
    <<"m", "a", "g", " ", "7", " ", "b", "o", "n", "u", "s">>

\* "MAG"
TitleNoNumber ==
    <<"M", "A", "G">>

\* "The Magnus Protocol 1"
TitleProtocol1 ==
    <<"T", "h", "e", " ", "M", "a", "g", "n", "u", "s", " ", "P", "r", "o", "t", "o", "c", "o", "l", " ", "1">>

\* "MAG 3 The Magnus Protocol 2"
TitleBoth ==
    <<"M", "A", "G", " ", "3", " ", "T", "h", "e", " ", "M", "a", "g", "n", "u", "s", " ", "P", "r", "o", "t", "o", "c", "o", "l", " ", "2">>

\* "MAG 2147483648"
TitleMagHuge ==
    <<"M", "A", "G", " ", "2", "1", "4", "7", "4", "8", "3", "6", "4", "8">>

\* "The Magnus Protocol 2147483648"
TitleProtocolHuge ==
    <<"T", "h", "e", " ", "M", "a", "g", "n", "u", "s", " ", "P", "r", "o", "t", "o", "c", "o", "l", " ", "2", "1", "4", "7", "4", "8", "3", "6", "4", "8">>

Titles == {TitleMag7, TitleMag12, TitleMagBonus, TitleNoNumber, TitleProtocol1, TitleBoth, TitleMagHuge, TitleProtocolHuge}

\* The <item> elements of a document: item i has a title and the enclosure
\* url i (every item has its own enclosure).
ItemLists ==
    UNION {[1..n -> Titles] : n \in 0..MaxItems}

Items(titles) == [i \in 1..Len(titles) |-> [title |-> titles[i], url |-> i]]

\* The documents the feed URL may serve: wellFormed is the outcome of
\* pugi::xml_document::load_string on the body.
Feeds ==
    {[wellFormed |-> w, items |-> Items(t)] : w \in BOOLEAN, t \in ItemLists}

NoData == [wellFormed |-> FALSE, items |-> <<>>]

\* ------------------------------------------------------------- Feed Parser
\* The loop of parseRssFeed from item i on; out is the caller's vector.
\* threw: std::stoi raised std::out_of_range, which nothing catches.
RECURSIVE ParseItems(_, _, _, _)
ParseItems(lit, items, i, out) ==
    IF i > Len(items) THEN [threw |-> FALSE, episodes |-> out]
    ELSE LET name == items[i].title
             link == items[i].url
             match == regex_search(name, lit)
         IN  IF match.matched /\ StoiThrows(match.group1)
             THEN [threw |-> TRUE, episodes |-> out]
             ELSE LET episodeNumber ==
                          IF match.matched THEN stoi(match.group1) ELSE -1
                      episode == [name |-> name, link |-> link,
                                  episodeNumber |-> episodeNumber]
                  IN  ParseItems(lit, items, i + 1,
                                 IF episodeNumber # -1
                                 THEN Append(out, episode) ELSE out)

\* Mutant of parseRssFeed: the result of load_string is not tested.
parseRssFeed_IgnoreLoadResult(lit, xmlData, out) ==
    LET r == ParseItems(lit, xmlData.items, 1, out)
    IN  [threw |-> r.threw, failed |-> FALSE, episodes |-> r.episodes]

\* parseRssFeed(pattern, xmlData, episodes): a document that does not load
\* is reported and leaves the vector as it was.
parseRssFeed(lit, xmlData, out) ==
    IF ~xmlData.wellFormed
    THEN [threw |-> FALSE, failed |-> TRUE, episodes |-> out]
    ELSE LET r == ParseItems(lit, xmlData.items, 1, out)
         IN  [threw |-> r.threw, failed |-> FALSE, episodes |-> r.episodes]

\* --------------------------------------------------------- Episode Sequencer
IndexPermutations(n) == {p \in [1..n -> 1..n] : \A a, b \in 1..n : a # b => p[a] # p[b]}

\* The comparator of std::sort: a.episodeNumber < b.episodeNumber.
Less(a, b) == a.episodeNumber < b.episodeNumber

\* Mutant of SortResults: the list is left in feed order.
SortResults_Unsorted(eps) == {eps}

\* std::sort is not stable: any ordering of the same records in which no
\* record is followed by a smaller one is a possible result.
SortResults(eps) ==
    {[i \in 1..Len(eps) |-> eps[p[i]]] : p \in
        {q \in IndexPermutations(Len(eps)) :
            \A a, b \in 1..Len(eps) : a < b => ~Less(eps[q[b]], eps[q[a]])}}

\* ------------------------------------------------------------------- state
VARIABLES
    argv1,         \* input: argv[1] is present
    feed,          \* input: the document served at the feed URL
    pc,            \* position of the single thread of control
    status,        \* "running", "exit0", "exit1" or "abort" (std::terminate)
    responseData,  \* body received by the feed fetch
    episodes,      \* MAG episode list
    episodes2,     \* Magnus Protocol episode list
    idx,           \* position of the running range-for loop
    pass,          \* 1: MAG loop, 2: Magnus Protocol loop (return address)
    episode,       \* argument of the running downloadContent call
    res,           \* CURLcode of the running download
    curlOpen,      \* number of live CURL easy handles
    fileOpen,      \* number of open FILE handles
    cerr,          \* last line written to standard error
    feedGets,      \* history: HTTP GETs issued to the feed URL
    mainCurl,      \* history: outcome of curl_easy_init in main
    calls,         \* history: pass and episode of every downloadContent call
    returns,       \* history: number of downloadContent calls that returned
    call           \* history: what the latest downloadContent call did

vars == <<argv1, feed, pc, status, responseData, episodes, episodes2, idx, pass,
          episode, res, curlOpen, fileOpen, cerr, feedGets, mainCurl, calls, returns,
          call>>

inputs == <<argv1, feed>>

\* Entry state of a downloadContent call: no handle asked for, no GET issued,
\* no result code, tagger not run.
NoCall == [curl |-> "none", file |-> "none", gets |-> 0, res |-> "none", tags |-> 0]

NoEpisode == [name |-> <<>>, link |-> 0, episodeNumber |-> -1]

Init ==
    /\ argv1 \in BOOLEAN
    /\ feed \in Feeds
    /\ (~argv1 => feed = NoData)
    /\ pc = "argcheck"
    /\ status = "running"
    /\ responseData = NoData
    /\ episodes = <<>>
    /\ episodes2 = <<>>
    /\ idx = 0
    /\ pass = 0
    /\ episode = NoEpisode
    /\ res = "none"
    /\ curlOpen = 0
    /\ fileOpen = 0
    /\ cerr = "none"
    /\ feedGets = 0
    /\ mainCurl = "none"
    /\ calls = <<>>
    /\ returns = 0
    /\ call = NoCall

\* Update the history record of the running downloadContent call.
Note(field, value) == [call EXCEPT ![field] = value]

\* Process exit: return from main with the given code.
Exit(code) ==
    /\ pc' = "done"
    /\ status' = code

\* An exception leaves main: std::terminate aborts the process.
Terminate ==
    /\ pc' = "done"
    /\ status' = "abort"

\* ------------------------------------------------------- main, up to the fetch
\* if (!argv[1]) { cerr << ...; return 1; }
CheckArgument ==
    /\ pc = "argcheck"
    /\ \/ /\ ~argv1
          /\ cerr' = "Add your patreon URL"
          /\ Exit("exit1")
       \/ /\ argv1
          /\ pc' = "mkdir"
          /\ UNCHANGED <<status, cerr>>
    /\ UNCHANGED <<inputs, responseData, episodes, episodes2, idx, pass, episode,
                   res, curlOpen, fileOpen, feedGets, mainCurl, calls, returns,
                   call>>

\* std::filesystem::create_directories("Downloads"): the throwing overload.
CreateDirectories ==
    /\ pc = "mkdir"
    /\ \/ pc' = "curl_init" /\ UNCHANGED status
       \/ Terminate
    /\ UNCHANGED <<inputs, responseData, episodes, episodes2, idx, pass, episode,
                   res, curlOpen, fileOpen, cerr, feedGets, mainCurl, calls, returns,
                   call>>

\* CURL* curl = curl_easy_init(); if (!curl) return 1;
MainCurlInit ==
    /\ pc = "curl_init"
    /\ \/ /\ curlOpen' = curlOpen + 1
          /\ mainCurl' = "ok"
          /\ pc' = "fetch"
          /\ UNCHANGED <<status, cerr>>
       \/ /\ cerr' = "Error initializing curl."
          /\ mainCurl' = "failed"
          /\ Exit("exit1")
          /\ UNCHANGED curlOpen
    /\ UNCHANGED <<inputs, responseData, episodes, episodes2, idx, pass, episode,
                   res, fileOpen, feedGets, calls, returns,
                   call>>

\* Mutant of FetchFeed: the failure path returns without curl_easy_cleanup.
FetchFeed_LeakOnFailure ==
    /\ pc = "fetch"
    /\ feedGets' = feedGets + 1
    /\ UNCHANGED mainCurl
    /\ \/ /\ responseData' = feed
          /\ pc' = "curl_cleanup"
          /\ UNCHANGED <<status, cerr>>
       \/ /\ cerr' = "curl_easy_perform() failed"
          /\ Exit("exit1")
          /\ UNCHANGED responseData
    /\ UNCHANGED <<inputs, episodes, episodes2, idx, pass, episode, res, curlOpen,
                   fileOpen, calls, returns,
                   call>>

\* curl_easy_perform on the feed URL; on failure cleanup and return 1.
FetchFeed ==
    /\ pc = "fetch"
    /\ feedGets' = feedGets + 1
    /\ UNCHANGED mainCurl
    /\ \/ /\ responseData' = feed
          /\ pc' = "curl_cleanup"
          /\ UNCHANGED <<status, cerr, curlOpen>>
       \/ /\ cerr' = "curl_easy_perform() failed"
          /\ curlOpen' = curlOpen - 1
          /\ Exit("exit1")
          /\ UNCHANGED responseData
    /\ UNCHANGED <<inputs, episodes, episodes2, idx, pass, episode, res, fileOpen,
                   calls, returns,
                   call>>

\* curl_easy_cleanup(curl) after the successful fetch.
MainCurlCleanup ==
    /\ pc = "curl_cleanup"
    /\ curlOpen' = curlOpen - 1
    /\ pc' = "parse1"
    /\ UNCHANGED <<inputs, status, responseData, episodes, episodes2, idx, pass,
                   episode, res, fileOpen, cerr, feedGets, mainCurl, calls, returns,
                   call>>

\* ------------------------------------------------------- main, the two passes
\* parseRssFeed(pattern, responseData, episodes)
ParseMag ==
    /\ pc = "parse1"
    /\ LET r == parseRssFeed(pattern, responseData, episodes)
       IN  \/ /\ r.threw
              /\ Terminate
              /\ UNCHANGED <<episodes, cerr>>
           \/ /\ ~r.threw
              /\ episodes' = r.episodes
              /\ cerr' = IF r.failed THEN "Error parsing XML" ELSE cerr
              /\ pc' = "sort1"
              /\ UNCHANGED status
    /\ UNCHANGED <<inputs, responseData, episodes2, idx, pass, episode, res,
                   curlOpen, fileOpen, feedGets, mainCurl, calls, returns,
                   call>>

\* std::sort(episodes.begin(), episodes.end(), by episodeNumber)
SortMag ==
    /\ pc = "sort1"
    /\ episodes' \in SortResults(episodes)
    /\ idx' = 1
    /\ pass' = 1
    /\ pc' = "loop1"
    /\ UNCHANGED <<inputs, status, responseData, episodes2, episode, res, curlOpen,
                   fileOpen, cerr, feedGets, mainCurl, calls, returns,
                   call>>

\* Entry of downloadContent(e) from the loop of the given pass.
Call(e) ==
    /\ episode' = e
    /\ res' = "none"
    /\ calls' = Append(calls, [pass |-> pass, episode |-> e])
    /\ call' = NoCall
    /\ UNCHANGED returns
    /\ pc' = "dl_curl_init"

\* for (const auto& episode : episodes) { ...; downloadContent(episode); ... }
LoopMag ==
    /\ pc = "loop1"
    /\ \/ /\ idx <= Len(episodes)
          /\ Call(episodes[idx])
       \/ /\ idx > Len(episodes)
          /\ pc' = "parse2"
          /\ UNCHANGED <<episode, res, calls, returns, call>>
    /\ UNCHANGED <<inputs, status, responseData, episodes, episodes2, idx, pass,
                   curlOpen, fileOpen, cerr, feedGets, mainCurl>>

\* parseRssFeed(pattern2, responseData, episodes2)
ParseProtocol ==
    /\ pc = "parse2"
    /\ LET r == parseRssFeed(pattern2, responseData, episodes2)
       IN  \/ /\ r.threw
              /\ Terminate
              /\ UNCHANGED <<episodes2, cerr>>
           \/ /\ ~r.threw
              /\ episodes2' = r.episodes
              /\ cerr' = IF r.failed THEN "Error parsing XML" ELSE cerr
              /\ pc' = "sort2"
              /\ UNCHANGED status
    /\ UNCHANGED <<inputs, responseData, episodes, idx, pass, episode, res,
                   curlOpen, fileOpen, feedGets, mainCurl, calls, returns,
                   call>>

\* std::sort(episodes2.begin(), episodes2.end(), by episodeNumber)
SortProtocol ==
    /\ pc = "sort2"
    /\ episodes2' \in SortResults(episodes2)
    /\ idx' = 1
    /\ pass' = 2
    /\ pc' = "loop2"
    /\ UNCHANGED <<inputs, status, responseData, episodes, episode, res, curlOpen,
                   fileOpen, cerr, feedGets, mainCurl, calls, returns,
                   call>>

\* for (const auto& episode : episodes2) { ... }  return 0;
LoopProtocol ==
    /\ pc = "loop2"
    /\ \/ /\ idx <= Len(episodes2)
          /\ Call(episodes2[idx])
          /\ UNCHANGED status
       \/ /\ idx > Len(episodes2)
          /\ Exit("exit0")
          /\ UNCHANGED <<episode, res, calls, returns, call>>
    /\ UNCHANGED <<inputs, responseData, episodes, episodes2, idx, pass, curlOpen,
                   fileOpen, cerr, feedGets, mainCurl>>

\* ------------------------------------------------------------ downloadContent
\* Return to the loop that made the call; the loop advances its iterator.
Return(newCall) ==
    /\ call' = newCall
    /\ returns' = returns + 1
    /\ UNCHANGED calls
    /\ idx' = idx + 1
    /\ pc' = IF pass = 1 THEN "loop1" ELSE "loop2"

\* CURL* curl = curl_easy_init(); if (!curl) { cerr << ...; return; }
DownloadCurlInit ==
    /\ pc = "dl_curl_init"
    /\ \/ /\ curlOpen' = curlOpen + 1
          /\ call' = Note("curl", "ok")
          /\ pc' = "dl_fopen"
          /\ UNCHANGED <<idx, cerr, calls, returns>>
       \/ /\ cerr' = "Error initializing curl for download."
          /\ Return(Note("curl", "failed"))
          /\ UNCHANGED curlOpen
    /\ UNCHANGED <<inputs, status, responseData, episodes, episodes2, pass, episode,
                   res, fileOpen, feedGets, mainCurl>>

\* Mutant of DownloadFopen: the failure path returns without curl_easy_cleanup.
DownloadFopen_NoCleanup ==
    /\ pc = "dl_fopen"
    /\ \/ /\ fileOpen' = fileOpen + 1
          /\ call' = Note("file", "ok")
          /\ pc' = "dl_perform"
          /\ UNCHANGED <<idx, cerr, calls, returns>>
       \/ /\ cerr' = "Error opening file for writing."
          /\ Return(Note("file", "failed"))
          /\ UNCHANGED fileOpen
    /\ UNCHANGED <<inputs, status, responseData, episodes, episodes2, pass, episode,
                   res, curlOpen, feedGets, mainCurl>>

\* FILE* file = fopen(..., "wb"); if (!file) { cerr; curl_easy_cleanup; return; }
DownloadFopen ==
    /\ pc = "dl_fopen"
    /\ \/ /\ fileOpen' = fileOpen + 1
          /\ call' = Note("file", "ok")
          /\ pc' = "dl_perform"
          /\ UNCHANGED <<idx, cerr, curlOpen, calls, returns>>
       \/ /\ cerr' = "Error opening file for writing."
          /\ curlOpen' = curlOpen - 1
          /\ Return(Note("file", "failed"))
          /\ UNCHANGED fileOpen
    /\ UNCHANGED <<inputs, status, responseData, episodes, episodes2, pass, episode,
                   res, feedGets, mainCurl>>

\* Mutant of DownloadPerform: a failed transfer is performed a second time.
DownloadPerform_Retry ==
    /\ pc = "dl_perform"
    /\ \E code \in {"CURLE_OK", "error"} :
          /\ res' = code
          /\ call' = [call EXCEPT !.gets = IF code = "CURLE_OK" THEN @ + 1 ELSE @ + 2,
                                  !.res = code]
          /\ cerr' = IF code # "CURLE_OK"
                     THEN "curl_easy_perform() failed for download" ELSE cerr
    /\ pc' = "dl_curl_cleanup"
    /\ UNCHANGED <<inputs, status, responseData, episodes, episodes2, idx, pass,
                   episode, curlOpen, fileOpen, feedGets, mainCurl, calls, returns>>

\* CURLcode res = curl_easy_perform(curl); if (res != CURLE_OK) cerr << ...;
DownloadPerform ==
    /\ pc = "dl_perform"
    /\ \E code \in {"CURLE_OK", "error"} :
          /\ res' = code
          /\ call' = [call EXCEPT !.gets = @ + 1, !.res = code]
          /\ cerr' = IF code # "CURLE_OK"
                     THEN "curl_easy_perform() failed for download" ELSE cerr
    /\ pc' = "dl_curl_cleanup"
    /\ UNCHANGED <<inputs, status, responseData, episodes, episodes2, idx, pass,
                   episode, curlOpen, fileOpen, feedGets, mainCurl, calls, returns>>

\* curl_easy_cleanup(curl);
DownloadCurlCleanup ==
    /\ pc = "dl_curl_cleanup"
    /\ curlOpen' = curlOpen - 1
    /\ pc' = "dl_fclose"
    /\ UNCHANGED <<inputs, status, responseData, episodes, episodes2, idx, pass,
                   episode, res, fileOpen, cerr, feedGets, mainCurl, calls, returns,
                   call>>

\* fclose(file);
DownloadFclose ==
    /\ pc = "dl_fclose"
    /\ fileOpen' = fileOpen - 1
    /\ pc' = "dl_tag"
    /\ UNCHANGED <<inputs, status, responseData, episodes, episodes2, idx, pass,
                   episode, res, curlOpen, cerr, feedGets, mainCurl, calls, returns,
                   call>>

\* setTrackNumber(path, episode): std::system(id3v2 ...), then return.
setTrackNumber ==
    /\ pc = "dl_tag"
    /\ \E result \in {0, 1} :
          cerr' = IF result # 0 THEN "Error setting track number." ELSE cerr
    /\ Return([call EXCEPT !.tags = @ + 1])
    /\ UNCHANGED <<inputs, status, responseData, episodes, episodes2, pass, episode,
                   res, curlOpen, fileOpen, feedGets, mainCurl>>

\* ------------------------------------------------------------ specification
Next ==
    \/ CheckArgument
    \/ CreateDirectories
    \/ MainCurlInit
    \/ FetchFeed
    \/ MainCurlCleanup
    \/ ParseMag
    \/ SortMag
    \/ LoopMag
    \/ ParseProtocol
    \/ SortProtocol
    \/ LoopProtocol
    \/ DownloadCurlInit
    \/ DownloadFopen
    \/ DownloadPerform
    \/ DownloadCurlCleanup
    \/ DownloadFclose
    \/ setTrackNumber

Spec == Init /\ [][Next]_vars

\* ---------------------------------------------------- vocabulary of the claims
Matches(title, lit) == regex_search(title, lit).matched

\* The items of the served document whose title matches, in feed order.
MatchingItems(lit) == SelectSeq(feed.items, LAMBDA it : Matches(it.title, lit))

\* Title and enclosure of each record of a list, in list order.
Entries(eps) == [i \in 1..Len(eps) |-> [title |-> eps[i].name, url |-> eps[i].link]]

Range(seq) == {seq[i] : i \in DOMAIN seq}

PatternOf(p) == IF p = 1 THEN pattern ELSE pattern2

\* The feed fetch succeeded (the run is past curl_easy_perform on the feed URL).
Fetched == feedGets = 1 /\ status # "exit1"

InDownload ==
    pc \in {"dl_curl_init", "dl_fopen", "dl_perform", "dl_curl_cleanup",
            "dl_fclose", "dl_tag"}

\* The latest downloadContent call has returned.
Returned == calls # <<>> /\ returns = Len(calls)

\* downloadContent calls made for item k in pass p.
CallsFor(p, k) == {i \in DOMAIN calls : calls[i].pass = p /\ calls[i].episode.link = k}

\* -------------------------------------------------------------------- claims
\* C1: the tagger runs at most once per downloadContent call, runs once for
\* every call whose transfer completed without a transport error, and never
\* runs for a call whose transfer did not succeed.
C1_TaggerOnlyAfterSuccess ==
    /\ call.tags <= 1
    /\ call.tags = 1 => call.res = "CURLE_OK"
    /\ (Returned /\ call.res = "CURLE_OK") => call.tags = 1

\* C2: once the feed has been fetched, whatever the per-episode outcomes, a
\* finished run has called downloadContent for every MAG episode and then
\* for every Magnus Protocol episode, and has exit code 0.
C2_FailuresIsolated ==
    (Fetched /\ status # "running") =>
        /\ status = "exit0"
        /\ [i \in 1..Len(calls) |-> calls[i].episode] = episodes \o episodes2
        /\ returns = Len(calls)

\* C3: the process ends with a non-zero code only when the argument is
\* missing or the feed fetch fails, then with code 1 and before any parsing,
\* download or tagging; every other run ends with code 0.
C3_OnlyTwoFatalCases ==
    status # "running" =>
        IF ~argv1 \/ cerr \in {"Error initializing curl.", "curl_easy_perform() failed"}
        THEN /\ status = "exit1"
             /\ episodes = <<>> /\ episodes2 = <<>> /\ calls = <<>>
        ELSE status = "exit0"

\* C4: for a well-formed feed parseRssFeed completes, and its output holds
\* exactly the items whose title matches, in feed order, each with
\* episodeNumber >= 0.
C4_ParserReturnsAllMatches ==
    (Fetched /\ feed.wellFormed) =>
        /\ status # "abort"
        /\ pc = "sort1" =>
              /\ Entries(episodes) = MatchingItems(pattern)
              /\ \A i \in DOMAIN episodes : episodes[i].episodeNumber >= 0
        /\ pc = "sort2" =>
              /\ Entries(episodes2) = MatchingItems(pattern2)
              /\ \A i \in DOMAIN episodes2 : episodes2[i].episodeNumber >= 0

\* C5: downloads are attempted one at a time, in non-decreasing episode
\* number within a series, each call (tagging included) returning before the
\* next starts, and every MAG call precedes every Magnus Protocol call.
C5_SequentialSortedOrder ==
    /\ \A i, j \in DOMAIN calls :
          i < j =>
             /\ calls[i].pass <= calls[j].pass
             /\ (calls[i].pass = calls[j].pass =>
                    calls[i].episode.episodeNumber <= calls[j].episode.episodeNumber)
    /\ returns = IF InDownload THEN Len(calls) - 1 ELSE Len(calls)
    /\ InDownload => calls[Len(calls)] = [pass |-> pass, episode |-> episode]
    /\ call.tags = 1 => ~InDownload

\* C5 witness: a finished run in which the sort moved a later item in front
\* of an earlier one and a Magnus Protocol download followed the MAG ones.
C5_Witness ==
    /\ status = "exit0"
    /\ \E i, j \in DOMAIN calls :
          /\ i < j
          /\ calls[i].pass = 1 /\ calls[j].pass = 1
          /\ calls[i].episode.link > calls[j].episode.link
          /\ calls[i].episode.episodeNumber < calls[j].episode.episodeNumber
    /\ \E k \in DOMAIN calls : calls[k].pass = 2

\* C6: a call whose destination file could not be opened reports the error,
\* performs no transfer, invokes no tagger and has released its client handle
\* when it returns.
C6_FileOpenFailure ==
    call.file = "failed" =>
        /\ call.curl = "ok"
        /\ call.gets = 0
        /\ call.res = "none"
        /\ call.tags = 0
        /\ Returned
        /\ ~InDownload
        /\ curlOpen = 0
        /\ fileOpen = 0
        /\ cerr = "Error opening file for writing."

\* C6 witness: the second call of a run has just returned after fopen failed.
C6_Witness ==
    /\ pc \in {"loop1", "loop2"}
    /\ Len(calls) = 2
    /\ call.file = "failed"
    /\ Returned

\* C7 as stated: every run past the argument check that exits issued exactly
\* one GET to the feed URL, and every downloadContent call of a matched
\* episode has issued exactly one GET when it returns.
C7_ExactlyOneGetEach ==
    /\ (argv1 /\ status \in {"exit0", "exit1"}) => feedGets = 1
    /\ Returned => call.gets = 1
    /\ status = "exit0" => Len(calls) = Len(episodes) + Len(episodes2)

\* C7 amended: at most one GET goes to the feed URL, and exactly one in every
\* run in which main's client handle was initialised; downloadContent is
\* called at most once per matched episode of each list and never for an
\* item its pattern does not match; a call issues exactly one GET to its
\* episode's enclosure if its client handle and its destination file were
\* both opened, and none otherwise.
C7_GetsPerOpenedDownload ==
    /\ feedGets \in {0, 1}
    /\ feedGets = 1 => mainCurl = "ok"
    /\ (mainCurl = "ok" /\ pc # "fetch") => feedGets = 1
    /\ call.gets <= 1
    /\ call.gets = 1 => (call.curl = "ok" /\ call.file = "ok")
    /\ (call.curl = "ok" /\ call.file = "ok" /\ pc # "dl_perform") => call.gets = 1
    /\ \A i \in DOMAIN calls :
          /\ calls[i].episode.link \in DOMAIN feed.items
          /\ feed.items[calls[i].episode.link].title = calls[i].episode.name
          /\ Matches(calls[i].episode.name, PatternOf(calls[i].pass))
    /\ \A p \in {1, 2} : \A k \in DOMAIN feed.items :
          Cardinality(CallsFor(p, k)) <= 1

\* C7 witness: a run has exited with code 0; its last call issued its GET,
\* an earlier one could not open its file and issued none, and one item of
\* the feed matched neither pattern.
C7_Witness ==
    /\ status = "exit0"
    /\ feedGets = 1
    /\ Len(calls) >= 2
    /\ call.gets = 1
    /\ cerr = "Error opening file for writing."
    /\ \E k \in DOMAIN feed.items :
          ~Matches(feed.items[k].title, pattern) /\ ~Matches(feed.items[k].title, pattern2)

\* C8: with a malformed feed body each parse reports the failure and leaves
\* its list empty, the process is not terminated by the failure, nothing is
\* downloaded or tagged, and the run ends with exit code 0.
C8_MalformedFeed ==
    (Fetched /\ ~feed.wellFormed) =>
        /\ episodes = <<>>
        /\ episodes2 = <<>>
        /\ calls = <<>>
        /\ call = NoCall
        /\ status \in {"running", "exit0"}
        /\ pc \in {"curl_cleanup", "parse1", "sort1", "loop1", "parse2", "sort2",
                   "loop2", "done"}
        /\ pc \in {"sort1", "loop1", "parse2", "sort2", "loop2", "done"}
              => cerr = "Error parsing XML"

\* C8 witness: a run on a malformed body that carries an item of each series
\* has exited with code 0.
C8_Witness ==
    /\ status = "exit0"
    /\ ~feed.wellFormed
    /\ \E k \in DOMAIN feed.items : Matches(feed.items[k].title, pattern)
    /\ \E k \in DOMAIN feed.items : Matches(feed.items[k].title, pattern2)

\* C9: the first list holds exactly the items matching the MAG pattern and
\* the second exactly those matching the Magnus Protocol pattern, whatever
\* happened in the first pass, and no item is downloaded in both passes.
C9_NoCrossContamination ==
    /\ (feed.wellFormed /\ pc \in {"sort1", "loop1", "parse2", "sort2", "loop2"})
          => Range(Entries(episodes)) = Range(MatchingItems(pattern))
    /\ (feed.wellFormed /\ pc \in {"sort2", "loop2"})
          => Range(Entries(episodes2)) = Range(MatchingItems(pattern2))
    /\ \A i, j \in DOMAIN calls :
          calls[i].pass # calls[j].pass => calls[i].episode.link # calls[j].episode.link

\* C10: at most one client handle and one file handle are open at any time,
\* none is open outside downloadContent once the feed handle is released, none
\* when the tagger is started, and none when the process has ended.
C10_ResourceScoping ==
    /\ curlOpen \in {0, 1}
    /\ fileOpen \in {0, 1}
    /\ pc \in {"dl_tag", "loop1", "loop2", "parse1", "sort1", "parse2", "sort2",
               "done"} => (curlOpen = 0 /\ fileOpen = 0)
    /\ status # "running" => (curlOpen = 0 /\ fileOpen = 0)
    /\ fileOpen = 1 => pc \in {"dl_perform", "dl_curl_cleanup", "dl_fclose"}
    /\ curlOpen = 1 =>
          pc \in {"fetch", "curl_cleanup", "dl_fopen", "dl_perform", "dl_curl_cleanup"}

\* C10 witness: the tagger is about to start for the second episode of a run,
\* whose two handles were both opened, after a call that could not get a
\* client handle.
C10_Witness ==
    /\ pc = "dl_tag"
    /\ Len(calls) = 2
    /\ call.curl = "ok" /\ call.file = "ok"
    /\ cerr = "Error initializing curl for download."

====
